---- MODULE Spec2Model ----
(***************************************************************************)
(* wall-clock: the WallClockTime value type (src/lib.rs), its text         *)
(* conversion (Display / FromStr), the serde adapter (src/serde.rs) and    *)
(* the PostgreSQL TIME adapter (src/db.rs).                                *)
(*                                                                         *)
(* Machine integers are little-endian sequences of bytes ("limbs"), since  *)
(* u32 and i64 values exceed the range of the model checker's integers:    *)
(* a u32 is 4 limbs, an i64 is 8 limbs in two's complement, a u8 is the    *)
(* lowest limb.  Strings are sequences of one-character strings.           *)
(***************************************************************************)
EXTENDS Integers, Sequences, FiniteSets, TLC

VARIABLES val, source, op, args, result, error, text, wire, ret

vars == <<val, source, op, args, result, error, text, wire, ret>>

----------------------------------------------------------------------------
(* Bounds of the input space *)

\* largest number of ':'-separated parts in an input string
MaxParts == 4
\* largest number of '.' separators in an input string
MaxDots == 2

----------------------------------------------------------------------------
(* Fixed-width machine integers *)

RECURSIVE Limbs(_, _)
\* the w-limb representation of a small natural n
Limbs(n, w) == IF w = 0 THEN <<>> ELSE <<n % 256>> \o Limbs(n \div 256, w - 1)

U32Of(n) == Limbs(n, 4)

IsZero(a) == \A i \in 1..Len(a) : a[i] = 0

Low(a, w) == SubSeq(a, 1, w)

\* TRUE iff a does not fit in w limbs
Exceeds(a, w) == \E i \in (w + 1)..Len(a) : a[i] # 0

RECURSIVE ZeroExtend(_, _)
ZeroExtend(a, w) == IF Len(a) >= w THEN a ELSE ZeroExtend(a \o <<0>>, w)

RECURSIVE MulLimbs(_, _, _)
\* the exact product a * k + c, Len(a) + 4 limbs
MulLimbs(a, k, c) ==
  IF a = <<>> THEN Limbs(c, 4)
  ELSE LET t == a[1] * k + c
       IN  <<t % 256>> \o MulLimbs(Tail(a), k, t \div 256)

RECURSIVE AddLimbs(_, _, _)
\* the exact sum a + b + c of two numbers of equal length, one limb longer
AddLimbs(a, b, c) ==
  IF a = <<>> THEN <<c>>
  ELSE LET t == a[1] + b[1] + c
       IN  <<t % 256>> \o AddLimbs(Tail(a), Tail(b), t \div 256)

RECURSIVE DivModLimbs(_, _)
\* unsigned division of a by the small divisor d
DivModLimbs(a, d) ==
  IF a = <<>> THEN [quot |-> <<>>, rem |-> 0]
  ELSE LET hi == DivModLimbs(Tail(a), d)
           t  == hi.rem * 256 + a[1]
       IN  [quot |-> <<t \div d>> \o hi.quot, rem |-> t % d]

RECURSIVE LessLimbs(_, _)
\* unsigned a < b, equal lengths
LessLimbs(a, b) ==
  IF a = <<>> THEN FALSE
  ELSE LET n == Len(a)
       IN  IF a[n] # b[n] THEN a[n] < b[n]
           ELSE LessLimbs(SubSeq(a, 1, n - 1), SubSeq(b, 1, n - 1))

\* u32 multiplication by a constant: the wrapped value and whether it overflowed
U32Mul(a, k) ==
  LET p == MulLimbs(a, k, 0)
  IN  [value |-> Low(p, 4), overflow |-> Exceeds(p, 4)]

\* u32 addition: the wrapped value and whether it overflowed
U32Add(a, b) ==
  LET s == AddLimbs(a, b, 0)
  IN  [value |-> Low(s, 4), overflow |-> Exceeds(s, 4)]

U32Div(a, d) == DivModLimbs(a, d).quot

U32Rem(a, d) == U32Of(DivModLimbs(a, d).rem)

\* `x as u8`
AsU8(a) == a[1]

\* i64 negation (two's complement, wrapping)
I64Neg(a) ==
  Low(AddLimbs([i \in 1..8 |-> 255 - a[i]], Limbs(0, 8), 1), 8)

I64IsNegative(a) == a[8] >= 128

\* `u as i64` for a u32
I64OfU32(a) == ZeroExtend(a, 8)

\* i64 `/` by a positive constant: rounds toward zero
I64Div(a, d) ==
  IF I64IsNegative(a) THEN I64Neg(DivModLimbs(I64Neg(a), d).quot)
  ELSE DivModLimbs(a, d).quot

\* i64 `%` by a positive constant: the sign of the dividend
I64Rem(a, d) ==
  IF I64IsNegative(a) THEN I64Neg(Limbs(DivModLimbs(I64Neg(a), d).rem, 8))
  ELSE Limbs(DivModLimbs(a, d).rem, 8)

\* `x as u32` for an i64
AsU32(a) == Low(a, 4)

----------------------------------------------------------------------------
(* The value type *)

WallClockTime(seconds, micros) == [seconds |-> seconds, micros |-> micros]

\* no value exists
NoValue == [seconds |-> <<>>, micros |-> <<>>]

NoText == <<"none">>
NoWire == <<>>
NoArgs == [none |-> TRUE]

Ok(v) == [tag |-> "Ok", value |-> v, error |-> ""]
Err(e) == [tag |-> "Err", value |-> NoValue, error |-> e]
Panic(e) == [tag |-> "Panic", value |-> NoValue, error |-> e]

\* WallClockTime::new_with_micros(hours: u8, minutes: u8, seconds: u8, micros: u32)
new_with_micros(hours, minutes, seconds, micros) ==
  IF ~(hours < 24) THEN Panic("Hours out of bounds.")
  ELSE IF ~(minutes < 60) THEN Panic("Minutes out of bounds.")
  ELSE IF ~(seconds < 60) THEN Panic("Seconds out of bounds.")
  ELSE IF ~LessLimbs(micros, U32Of(1000000))
       THEN Panic("Microseconds out of bounds.")
  ELSE LET hs == U32Mul(U32Of(hours), 3600)
           ms == U32Mul(U32Of(minutes), 60)
           s1 == U32Add(hs.value, ms.value)
           s2 == U32Add(s1.value, U32Of(seconds))
       IN  Ok(WallClockTime(s2.value, micros))

\* WallClockTime::new(hours: u8, minutes: u8, seconds: u8)
new(hours, minutes, seconds) == new_with_micros(hours, minutes, seconds, U32Of(0))

\* new_midnight_offset with the bound on seconds off by one
new_midnight_offset_inclusive(seconds, micros) ==
  IF ~LessLimbs(seconds, U32Of(86401)) THEN Panic("Seconds out of bounds.")
  ELSE IF ~LessLimbs(micros, U32Of(1000000))
       THEN Panic("Microseconds out of bounds.")
  ELSE Ok(WallClockTime(seconds, micros))

\* WallClockTime::new_midnight_offset(seconds: u32, micros: u32)
new_midnight_offset(seconds, micros) ==
  IF ~LessLimbs(seconds, U32Of(86400)) THEN Panic("Seconds out of bounds.")
  ELSE IF ~LessLimbs(micros, U32Of(1000000))
       THEN Panic("Microseconds out of bounds.")
  ELSE Ok(WallClockTime(seconds, micros))

\* #[derive(Default)]
default == WallClockTime(U32Of(0), U32Of(0))

\* hour without the narrowing of seconds to hours
hour_of_minutes(self) == AsU8(U32Div(self.seconds, 60))

hour(self) == AsU8(U32Div(self.seconds, 3600))

\* minute without the reduction modulo the hour
minute_of_day(self) == AsU8(U32Div(self.seconds, 60))

minute(self) == AsU8(U32Div(U32Rem(self.seconds, 3600), 60))

second(self) == AsU8(U32Rem(self.seconds, 60))

microsecond(self) == self.micros

----------------------------------------------------------------------------
(* Text conversion *)

Digit == <<"0", "1", "2", "3", "4", "5", "6", "7", "8", "9">>

IsDigit(c) == \E i \in 1..10 : Digit[i] = c

DigitValue(c) == (CHOOSE i \in 1..10 : Digit[i] = c) - 1

RECURSIVE DecimalDigits(_)
DecimalDigits(a) ==
  IF IsZero(a) THEN <<>>
  ELSE LET dm == DivModLimbs(a, 10)
       IN  DecimalDigits(dm.quot) \o <<Digit[dm.rem + 1]>>

\* the decimal rendering of an unsigned integer
Decimal(a) == IF IsZero(a) THEN <<"0">> ELSE DecimalDigits(a)

\* formatting without the zero fill
PadNone(s, w) == s

RECURSIVE PadZero(_, _)
\* `{:0w}`: left-padded with zeros to at least w characters
PadZero(s, w) == IF Len(s) >= w THEN s ELSE PadZero(<<"0">> \o s, w)

\* impl Display for WallClockTime
Display(self) ==
  PadZero(Decimal(<<hour(self)>>), 2) \o <<":">>
    \o PadZero(Decimal(<<minute(self)>>), 2) \o <<":">>
    \o PadZero(Decimal(<<second(self)>>), 2)
    \o (IF ~IsZero(self.micros)
        THEN <<".">> \o PadZero(Decimal(self.micros), 6)
        ELSE <<>>)

\* impl Debug for WallClockTime
Debug(self) == Display(self)

RECURSIVE Split(_, _)
\* str::split(sep).collect()
Split(s, sep) ==
  IF \A i \in 1..Len(s) : s[i] # sep THEN <<s>>
  ELSE LET i == CHOOSE j \in 1..Len(s) :
                  s[j] = sep /\ \A k \in 1..(j - 1) : s[k] # sep
       IN  <<SubSeq(s, 1, i - 1)>> \o Split(SubSeq(s, i + 1, Len(s)), sep)

RECURSIVE ParseDigits(_, _)
\* accumulates the digits of s onto acc with checked arithmetic
ParseDigits(s, acc) ==
  IF s = <<>> THEN [ok |-> TRUE, value |-> acc]
  ELSE IF ~IsDigit(s[1]) THEN [ok |-> FALSE, value |-> U32Of(0)]
  ELSE LET m == U32Mul(acc, 10)
           a == U32Add(m.value, U32Of(DigitValue(s[1])))
       IN  IF m.overflow \/ a.overflow THEN [ok |-> FALSE, value |-> U32Of(0)]
           ELSE ParseDigits(Tail(s), a.value)

\* parse::<u32>() taking the empty string for zero
parse_u32_empty_is_zero(s) ==
  IF Len(s) = 1 /\ s[1] \in {"+", "-"} THEN [ok |-> FALSE, value |-> U32Of(0)]
  ELSE IF s # <<>> /\ s[1] = "+" THEN ParseDigits(Tail(s), U32Of(0))
  ELSE ParseDigits(s, U32Of(0))

\* str::parse::<u32>()
parse_u32(s) ==
  IF s = <<>> THEN [ok |-> FALSE, value |-> U32Of(0)]
  ELSE IF Len(s) = 1 /\ s[1] \in {"+", "-"} THEN [ok |-> FALSE, value |-> U32Of(0)]
  ELSE IF s[1] = "+" THEN ParseDigits(Tail(s), U32Of(0))
  ELSE ParseDigits(s, U32Of(0))

\* impl FromStr for WallClockTime; overflow_checks is the build's setting
\* (the message of the first error is the source's without its backquotes)
from_str(s, overflow_checks) ==
  LET seconds_micros == Split(s, ".")
  IN
  IF Len(seconds_micros) > 2 THEN Err("Only one . allowed in wall-clock times")
  ELSE
  LET micros == IF Len(seconds_micros) >= 2 THEN parse_u32(seconds_micros[2])
                ELSE [ok |-> TRUE, value |-> U32Of(0)]
  IN
  IF ~micros.ok THEN Err("Invalid microseconds")
  ELSE
  LET hms == Split(seconds_micros[1], ":")
  IN
  IF Len(hms) # 3 THEN Err("Invalid HH:MM:SS specified")
  ELSE
  LET hours == parse_u32(hms[1])
  IN
  IF ~hours.ok THEN Err("Invalid HH")
  ELSE
  LET minutes == parse_u32(hms[2])
  IN
  IF ~minutes.ok THEN Err("Invalid MM")
  ELSE
  LET seconds == parse_u32(hms[3])
  IN
  IF ~seconds.ok THEN Err("Invalid SS")
  ELSE
  LET hs == U32Mul(hours.value, 3600)
      ms == U32Mul(minutes.value, 60)
      s1 == U32Add(hs.value, ms.value)
      s2 == U32Add(s1.value, seconds.value)
  IN
  IF overflow_checks /\ (hs.overflow \/ ms.overflow)
  THEN Panic("attempt to multiply with overflow")
  ELSE IF overflow_checks /\ (s1.overflow \/ s2.overflow)
  THEN Panic("attempt to add with overflow")
  ELSE Ok(WallClockTime(s2.value, micros.value))

----------------------------------------------------------------------------
(* Serialization adapter *)

\* impl Serialize for WallClockTime: the token handed to the serializer
serialize(self) == [kind |-> "Str", str |-> Display(self)]

\* WallClockTimeVisitor::visit_str
visit_str(s, overflow_checks) == from_str(s, overflow_checks)

\* impl Deserialize for WallClockTime
deserialize(token, overflow_checks) ==
  IF token.kind = "Str" THEN visit_str(token.str, overflow_checks)
  ELSE Err("invalid type: expected a HH:MM:SS WallClockTime string")

----------------------------------------------------------------------------
(* Database column adapter *)

\* impl ToSql<Time, Pg> for WallClockTime: the i64 offset given to PgTime
to_sql(self) ==
  Low(AddLimbs(Low(MulLimbs(I64OfU32(self.seconds), 1000000, 0), 8),
               I64OfU32(self.micros), 0), 8)

\* from_sql taking the offset for milliseconds
from_sql_millis(bytes) ==
  IF Len(bytes) # 8 THEN Err("backend decode failure")
  ELSE LET offset == bytes
       IN  Ok(WallClockTime(AsU32(I64Div(offset, 1000)),
                            AsU32(I64Rem(offset, 1000))))

\* impl FromSql<Time, Pg> for WallClockTime; bytes is the stored value
from_sql(bytes) ==
  IF Len(bytes) # 8 THEN Err("backend decode failure")
  ELSE LET offset == bytes
       IN  Ok(WallClockTime(AsU32(I64Div(offset, 1000000)),
                            AsU32(I64Rem(offset, 1000000))))

----------------------------------------------------------------------------
(* Ordering *)

\* Ord for u32
CmpU32(a, b) == IF LessLimbs(a, b) THEN "Less"
                ELSE IF LessLimbs(b, a) THEN "Greater" ELSE "Equal"

\* the derived order with the fields declared the other way round
cmp_micros_first(a, b) ==
  IF CmpU32(a.micros, b.micros) # "Equal" THEN CmpU32(a.micros, b.micros)
  ELSE CmpU32(a.seconds, b.seconds)

\* #[derive(PartialOrd, Ord)]: fields in declaration order
cmp(a, b) ==
  IF CmpU32(a.seconds, b.seconds) # "Equal" THEN CmpU32(a.seconds, b.seconds)
  ELSE CmpU32(a.micros, b.micros)

\* #[derive(PartialEq, Eq)]
eq(a, b) == a.seconds = b.seconds /\ a.micros = b.micros

----------------------------------------------------------------------------
(* Inputs *)

U32_MAX == <<255, 255, 255, 255>>

\* u8 arguments: in range, at the edge of the range, and beyond it
HourArgs == {0, 9, 23, 24, 255}
MinuteArgs == {0, 10, 59, 60, 255}
SecondArgs == {0, 1, 59, 60, 255}

MicrosArgs ==
  {U32Of(0), U32Of(1), U32Of(123456), U32Of(600000), U32Of(999999),
   U32Of(1000000), U32_MAX}

OffsetArgs ==
  {U32Of(0), U32Of(59), U32Of(60), U32Of(3599), U32Of(3600), U32Of(43200),
   U32Of(86399), U32Of(86400), U32_MAX}

RECURSIVE Join(_, _)
Join(parts, sep) ==
  IF Len(parts) = 1 THEN parts[1]
  ELSE parts[1] \o <<sep>> \o Join(Tail(parts), sep)

\* 1193047 * 3600 and 71582789 * 60 are the least products beyond u32::MAX
HourFields ==
  {<<>>, <<"0">>, <<"0", "9">>, <<"1", "8">>, <<"2", "4">>,
   <<"+", "5">>, <<"-", "1">>, <<"x">>,
   <<"1", "1", "9", "3", "0", "4", "6">>,
   <<"1", "1", "9", "3", "0", "4", "7">>,
   <<"4", "2", "9", "4", "9", "6", "7", "2", "9", "5">>,
   <<"4", "2", "9", "4", "9", "6", "7", "2", "9", "6">>}

MinuteFields ==
  {<<>>, <<"0">>, <<"3", "0">>, <<"6", "0">>,
   <<" ", "1">>, <<"7", "1", "5", "8", "2", "7", "8", "9">>}

SecondFields ==
  {<<>>, <<"0", "0">>, <<"0", "1">>, <<"x">>,
   <<"1", "6", "9", "6">>,
   <<"4", "2", "9", "4", "9", "6", "7", "2", "9", "5">>}

FractionFields ==
  {<<>>, <<"5">>, <<"0", "0", "0", "0", "0", "5">>,
   <<"3", "4", "5", "6", "7", "8">>,
   <<"1", "0", "0", "0", "0", "0", "0">>, <<"x">>,
   <<"4", "2", "9", "4", "9", "6", "7", "2", "9", "6">>}

\* fields of the inputs that have the wrong number of parts or separators
FewFields == {<<>>, <<"9">>, <<"3", "0">>, <<"a", "b">>}

WithFraction(heads, fractions) ==
  heads \cup {h \o <<".">> \o f : h \in heads, f \in fractions}

\* H:M:S and H:M:S.F
ThreePartInputs ==
  WithFraction({Join(<<h, m, s>>, ":") :
                  h \in HourFields, m \in MinuteFields, s \in SecondFields},
               FractionFields)

\* any other number of ':'-separated parts, with or without a fraction
OtherPartInputs ==
  WithFraction(UNION {{Join(p, ":") : p \in [1..n -> FewFields]} :
                        n \in (1..MaxParts) \ {3}},
               {<<"5">>, <<"x">>})

\* two or more '.' separators
ManyDotInputs ==
  UNION {{Join(p, ".") :
            p \in {q \in [1..(d + 1) -> FewFields \cup {<<"0", ":", "0", ":", "0">>}] :
                     \A i \in 2..(d + 1) : q[i] \in FewFields}} :
           d \in 2..MaxDots}

InputStrings == ThreePartInputs \cup OtherPartInputs \cup ManyDotInputs

\* tokens a deserializer can present
InputTokens ==
  {[kind |-> "Str", str |-> s] :
     s \in {<<"0", "9", ":", "3", "0", ":", "0", "0">>,
            <<"1", "5", ":", "3", "0", ":", "4", "5", ".", "1", "2", "3", "4", "5", "6">>,
            <<"2", "5", ":", "0", "0", ":", "0", "0">>,
            <<"1", "1", "9", "3", "0", "4", "7", ":", "0", ":", "0">>,
            <<"n", "o", "o", "n">>}}
    \cup {[kind |-> "U64", str |-> <<>>], [kind |-> "Unit", str |-> <<>>]}

\* the i64 q * 1000000 + r
OffsetOf(q, r) == Low(MulLimbs(q, 1000000, r), 8)

\* stored TIME values: a day's range, 24:00:00, and values no TIME holds
InputBytes ==
  {OffsetOf(Limbs(0, 8), 0), OffsetOf(Limbs(0, 8), 1),
   OffsetOf(Limbs(43200, 8), 0), OffsetOf(Limbs(86399, 8), 999999),
   OffsetOf(Limbs(86400, 8), 0), OffsetOf(Limbs(90000, 8), 5),
   OffsetOf(<<0, 0, 0, 0, 1, 0, 0, 0>>, 7),
   I64Neg(OffsetOf(Limbs(0, 8), 1)), I64Neg(OffsetOf(Limbs(3600, 8), 1)),
   <<255, 255, 255, 255, 255, 255, 255, 127>>,
   <<0, 0, 0, 0, 0, 0, 0, 128>>,
   <<0, 0, 0, 1>>}

\* right-hand operands of comparisons
OtherValues ==
  {WallClockTime(U32Of(s), U32Of(u)) :
     s \in {0, 1, 86399}, u \in {0, 999999}}
    \cup {WallClockTime(U32Of(86400), U32Of(0)),
          WallClockTime(U32Of(0), U32Of(1000000)),
          WallClockTime(U32Of(0), U32_MAX)}

----------------------------------------------------------------------------
(* The state machine: a program that constructs a value and uses it *)

NoRet == <<>>

Init ==
  /\ val = NoValue
  /\ source = NoValue
  /\ op = "init"
  /\ args = NoArgs
  /\ result = "none"
  /\ error = ""
  /\ text = NoText
  /\ wire = NoWire
  /\ ret = NoRet

\* nothing has been constructed yet
AtStart == op = "init"

\* a value exists
Live == result = "Ok" /\ val # NoValue

\* the outcome r of the constructing operation name on inputs a; source is
\* the value whose text or stored bytes the operation consumed, if any
Construct(name, a, r) ==
  /\ op' = name
  /\ args' = a
  /\ result' = r.tag
  /\ error' = r.error
  /\ val' = r.value
  /\ source' = val
  /\ text' = NoText
  /\ wire' = NoWire
  /\ ret' = NoRet

\* an operation name on the live value: its return value r, the text t and
\* the stored bytes w it puts in flight
Use(name, a, r, t, w) ==
  /\ op' = name
  /\ args' = a
  /\ ret' = r
  /\ text' = t
  /\ wire' = w
  /\ source' = NoValue
  /\ UNCHANGED <<val, result, error>>

New ==
  /\ AtStart
  /\ \E h \in HourArgs, m \in MinuteArgs, s \in SecondArgs :
       Construct("new", [h |-> h, m |-> m, s |-> s], new(h, m, s))

NewWithMicros ==
  /\ AtStart
  /\ \E h \in HourArgs, m \in MinuteArgs, s \in SecondArgs, u \in MicrosArgs :
       Construct("new_with_micros", [h |-> h, m |-> m, s |-> s, u |-> u],
                 new_with_micros(h, m, s, u))

NewMidnightOffset ==
  /\ AtStart
  /\ \E s \in OffsetArgs, u \in MicrosArgs :
       Construct("new_midnight_offset", [seconds |-> s, micros |-> u],
                 new_midnight_offset(s, u))

Default ==
  /\ AtStart
  /\ Construct("default", NoArgs, Ok(default))

Hour ==
  /\ Live
  /\ Use("hour", NoArgs, hour(val), NoText, NoWire)

Minute ==
  /\ Live
  /\ Use("minute", NoArgs, minute(val), NoText, NoWire)

Second ==
  /\ Live
  /\ Use("second", NoArgs, second(val), NoText, NoWire)

Microsecond ==
  /\ Live
  /\ Use("microsecond", NoArgs, microsecond(val), NoText, NoWire)

DisplayFormat ==
  /\ Live
  /\ Use("to_string", NoArgs, NoRet, Display(val), NoWire)

DebugFormat ==
  /\ Live
  /\ Use("debug", NoArgs, NoRet, Debug(val), NoWire)

Serialize ==
  /\ Live
  /\ Use("serialize", NoArgs, NoRet, serialize(val).str, NoWire)

ToSql ==
  /\ Live
  /\ Use("to_sql", NoArgs, NoRet, NoText, to_sql(val))

Compare ==
  /\ Live
  /\ \E b \in OtherValues :
       Use("cmp", [b |-> b], [ord |-> cmp(val, b), eq |-> eq(val, b)], NoText, NoWire)

\* parses an input string, or the text in flight
FromStr ==
  /\ AtStart \/ text # NoText
  /\ \E s \in (IF AtStart THEN InputStrings ELSE {text}) :
       \E overflow_checks \in BOOLEAN :
         Construct("from_str", [s |-> s], from_str(s, overflow_checks))

\* deserializes an input token, or the serialized text in flight
Deserialize ==
  /\ AtStart \/ op = "serialize"
  /\ \E token \in (IF AtStart THEN InputTokens
                     ELSE {[kind |-> "Str", str |-> text]}) :
       \E overflow_checks \in BOOLEAN :
         Construct("deserialize", [token |-> token],
                   deserialize(token, overflow_checks))

\* decodes a stored value, or the bytes in flight
FromSql ==
  /\ AtStart \/ wire # NoWire
  /\ \E bytes \in (IF AtStart THEN InputBytes ELSE {wire}) :
       Construct("from_sql", [bytes |-> bytes], from_sql(bytes))

Next ==
  \/ New
  \/ NewWithMicros
  \/ NewMidnightOffset
  \/ Default
  \/ Hour
  \/ Minute
  \/ Second
  \/ Microsecond
  \/ DisplayFormat
  \/ DebugFormat
  \/ Serialize
  \/ ToSql
  \/ Compare
  \/ FromStr
  \/ Deserialize
  \/ FromSql

Spec == Init /\ [][Next]_vars

TypeOK ==
  /\ result \in {"none", "Ok", "Err", "Panic"}
  /\ (val # NoValue) => (Len(val.seconds) = 4 /\ Len(val.micros) = 4)

----------------------------------------------------------------------------
(* Properties *)

\* the data model's invariant on a value
Valid(v) ==
  /\ LessLimbs(v.seconds, U32Of(86400))
  /\ LessLimbs(v.micros, U32Of(1000000))

\* the number a u32 below 2^31 stands for
ToNat(a) == a[1] + 256 * (a[2] + 256 * (a[3] + 256 * a[4]))

\* secondsSinceMidnight * 1000000 + microseconds, exactly
MicrosSinceMidnight(v) ==
  Low(AddLimbs(Low(MulLimbs(ZeroExtend(v.seconds, 8), 1000000, 0), 8),
               ZeroExtend(v.micros, 8), 0), 8)

\* C1: every value that exists has secondsSinceMidnight < 86400 and
\* microseconds < 1000000, whichever construction path produced it.
C1_EveryValueInRange == (val # NoValue) => Valid(val)

\* C2: parsing the canonical text of a valid value succeeds and yields that
\* value, directly and through the serialization adapter, whose serialized
\* form is the canonical text.
C2_TextRoundTrip ==
  /\ (op \in {"from_str", "deserialize"} /\ source # NoValue /\ Valid(source))
       => (result = "Ok" /\ val = source)
  /\ (op = "deserialize" /\ source # NoValue)
       => args.token = [kind |-> "Str", str |-> Display(source)]

C2_Witness ==
  /\ op = "from_str"
  /\ source = WallClockTime(U32Of(86399), U32Of(1))
  /\ val = source

\* C3: after new_with_micros(h, m, s, u) the accessors return h, m, s and u
\* (u = 0 after new), and on every valid value they return seconds / 3600,
\* seconds % 3600 / 60 and seconds % 60 without loss in the byte.
C3_AccessorsReturnComponents ==
  [][/\ (op \in {"new", "new_with_micros"} /\ result = "Ok")
          => /\ (op' = "hour") => (ret' = args.h)
             /\ (op' = "minute") => (ret' = args.m)
             /\ (op' = "second") => (ret' = args.s)
             /\ (op' = "microsecond")
                  => (ret' = IF op = "new" THEN U32Of(0) ELSE args.u)
     /\ (op' = "hour" /\ Valid(val'))
          => (ret' = ToNat(val'.seconds) \div 3600)
     /\ (op' = "minute" /\ Valid(val'))
          => (ret' = (ToNat(val'.seconds) % 3600) \div 60)
     /\ (op' = "second" /\ Valid(val'))
          => (ret' = ToNat(val'.seconds) % 60)
     /\ (op' = "microsecond") => (ret' = val'.micros)]_vars

C3_Witness ==
  /\ op = "minute"
  /\ ret = 59
  /\ val = WallClockTime(U32Of(23 * 3600 + 59 * 60 + 59), U32Of(999999))

\* C4: new and new_with_micros panic, producing no value, exactly when
\* hours >= 24 or minutes >= 60 or seconds >= 60 or micros >= 1000000;
\* new_midnight_offset exactly when seconds >= 86400 or micros >= 1000000;
\* otherwise they succeed.
C4_ConstructorsPanicIffOutOfRange ==
  /\ (op = "new")
       => ((result = "Panic") <=> (args.h >= 24 \/ args.m >= 60 \/ args.s >= 60))
  /\ (op = "new_with_micros")
       => ((result = "Panic")
             <=> \/ args.h >= 24
                 \/ args.m >= 60
                 \/ args.s >= 60
                 \/ ~LessLimbs(args.u, U32Of(1000000)))
  /\ (op = "new_midnight_offset")
       => ((result = "Panic")
             <=> \/ ~LessLimbs(args.seconds, U32Of(86400))
                 \/ ~LessLimbs(args.micros, U32Of(1000000)))
  /\ (op \in {"new", "new_with_micros", "new_midnight_offset"})
       => /\ (result = "Panic") => (val = NoValue)
          /\ (result # "Panic") => (result = "Ok" /\ val # NoValue)

C4_Witness ==
  /\ op = "new_midnight_offset"
  /\ args = [seconds |-> U32Of(86400), micros |-> U32Of(999999)]
  /\ result = "Panic"

\* the text HH:MM:SS[.FFFFFF] of a valid value, digit by digit
Canonical(v) ==
  LET n == ToNat(v.seconds)
      u == ToNat(v.micros)
      h == n \div 3600
      m == (n % 3600) \div 60
      s == n % 60
      D(k) == Digit[k + 1]
  IN  <<D(h \div 10), D(h % 10), ":", D(m \div 10), D(m % 10), ":",
        D(s \div 10), D(s % 10)>>
        \o (IF u # 0
            THEN <<".", D(u \div 100000), D((u \div 10000) % 10),
                   D((u \div 1000) % 10), D((u \div 100) % 10),
                   D((u \div 10) % 10), D(u % 10)>>
            ELSE <<>>)

\* C5: formatting a valid value gives two-digit HH:MM:SS, followed by '.' and
\* six digits of the microseconds iff they are not zero; the debug rendering
\* is the same string.
C5_CanonicalFormat ==
  (op \in {"to_string", "debug"} /\ Valid(val))
    => /\ text = Canonical(val)
       /\ Len(text) = IF IsZero(val.micros) THEN 8 ELSE 15

C5_Witness ==
  /\ op = "debug"
  /\ text = <<"0", "9", ":", "0", "0", ":", "0", "1", ".",
              "0", "0", "0", "0", "0", "1">>

\* C6: text parsing ends with a value or a recoverable error and never
\* fails fatally, whatever the magnitude of the fields.
C6_ParseNeverFatal ==
  (op \in {"from_str", "deserialize"}) => (result # "Panic")

Count(s, c) == Cardinality({i \in 1..Len(s) : s[i] = c})

\* the part of s before its first c, the whole of s if there is none
Before(s, c) ==
  IF Count(s, c) = 0 THEN s
  ELSE SubSeq(s, 1, (CHOOSE i \in 1..Len(s) :
                       s[i] = c /\ Count(SubSeq(s, 1, i), c) = 1) - 1)

\* the part of s after its first c
After(s, c) == SubSeq(s, Len(Before(s, c)) + 2, Len(s))

RECURSIVE StripZeros(_)
StripZeros(d) == IF d # <<>> /\ d[1] = "0" THEN StripZeros(Tail(d)) ELSE d

RECURSIVE DigitsLeq(_, _)
\* d <= e for digit strings of equal length
DigitsLeq(d, e) ==
  IF d = <<>> THEN TRUE
  ELSE IF d[1] # e[1] THEN DigitValue(d[1]) < DigitValue(e[1])
  ELSE DigitsLeq(Tail(d), Tail(e))

\* f is an unsigned integer a u32 holds: digits after an optional '+',
\* at most 4294967295
IsU32Text(f) ==
  LET d == IF f # <<>> /\ f[1] = "+" THEN Tail(f) ELSE f
      z == StripZeros(d)
  IN  /\ d # <<>>
      /\ \A i \in 1..Len(d) : IsDigit(d[i])
      /\ \/ Len(z) < 10
         \/ /\ Len(z) = 10
            /\ DigitsLeq(z, <<"4", "2", "9", "4", "9", "6", "7", "2", "9", "5">>)

\* the error the first failing check reports on s, "" if every check passes
ExpectedError(s) ==
  LET head == Before(s, ".")
      f1 == Before(head, ":")
      f2 == Before(After(head, ":"), ":")
      f3 == After(After(head, ":"), ":")
  IN  IF Count(s, ".") > 1 THEN "Only one . allowed in wall-clock times"
      ELSE IF Count(s, ".") = 1 /\ ~IsU32Text(After(s, "."))
           THEN "Invalid microseconds"
      ELSE IF Count(head, ":") # 2 THEN "Invalid HH:MM:SS specified"
      ELSE IF ~IsU32Text(f1) THEN "Invalid HH"
      ELSE IF ~IsU32Text(f2) THEN "Invalid MM"
      ELSE IF ~IsU32Text(f3) THEN "Invalid SS"
      ELSE ""

\* C7: parsing returns an error and no value whenever the input has more
\* than one '.', a fraction that is not an unsigned integer, other than three
\* ':'-separated parts, or a part that is not an unsigned integer; the error
\* is that of the first failing check.
C7_ParseErrors ==
  (op = "from_str")
    => /\ (ExpectedError(args.s) # "")
            => (result = "Err" /\ error = ExpectedError(args.s) /\ val = NoValue)
       /\ (result = "Err") => (ExpectedError(args.s) # "")

C7_Witness ==
  /\ op = "from_str"
  /\ args.s = <<"9", ":", "3", "0", ".", "x">>
  /\ result = "Err"
  /\ error = "Invalid microseconds"

\* C8: a < b iff a's seconds are less, or equal with a's microseconds less;
\* a == b iff both attributes are equal; on valid values the order is that of
\* secondsSinceMidnight * 1000000 + microseconds.
C8_TotalOrder ==
  (op = "cmp")
    => LET a == val
           b == args.b
       IN  /\ ret.ord \in {"Less", "Equal", "Greater"}
           /\ (ret.ord = "Less")
                <=> \/ LessLimbs(a.seconds, b.seconds)
                    \/ a.seconds = b.seconds /\ LessLimbs(a.micros, b.micros)
           /\ (ret.ord = "Equal") <=> (a = b)
           /\ ret.eq <=> (a = b)
           /\ (Valid(a) /\ Valid(b))
                => /\ (ret.ord = "Less")
                        <=> LessLimbs(MicrosSinceMidnight(a), MicrosSinceMidnight(b))
                   /\ (ret.ord = "Greater")
                        <=> LessLimbs(MicrosSinceMidnight(b), MicrosSinceMidnight(a))

C8_Witness ==
  /\ op = "cmp"
  /\ val = WallClockTime(U32Of(0), U32Of(999999))
  /\ args.b = WallClockTime(U32Of(1), U32Of(0))
  /\ ret.ord = "Less"

\* C9: to-storage of a valid value encodes secondsSinceMidnight * 1000000 +
\* microseconds, which lies in [0, 86400000000), and from-storage of that
\* offset yields the value.
C9_DatabaseRoundTrip ==
  /\ (op = "to_sql" /\ Valid(val))
       => /\ wire = MicrosSinceMidnight(val)
          /\ ~I64IsNegative(wire)
          /\ LessLimbs(wire, OffsetOf(Limbs(86400, 8), 0))
  /\ (op = "from_sql" /\ source # NoValue /\ Valid(source))
       => (result = "Ok" /\ val = source)

C9_Witness ==
  /\ op = "from_sql"
  /\ source = WallClockTime(U32Of(86399), U32Of(999999))
  /\ val = source

RECURSIVE Numeral(_, _)
\* the number the digit string d stands for after acc, exactly, in 8 limbs
Numeral(d, acc) ==
  IF d = <<>> THEN acc
  ELSE Numeral(Tail(d), Low(MulLimbs(acc, 10, DigitValue(d[1])), 8))

FieldValue(f) ==
  Numeral(IF f # <<>> /\ f[1] = "+" THEN Tail(f) ELSE f, Limbs(0, 8))

\* C10: a successful parse of H:M:S or H:M:S.F has secondsSinceMidnight =
\* H*3600 + M*60 + S and microseconds = F taken as it is, 0 without F.
C10_ParsedValue ==
  (op = "from_str" /\ result = "Ok")
    => LET head == Before(args.s, ".")
           H == FieldValue(Before(head, ":"))
           M == FieldValue(Before(After(head, ":"), ":"))
           S == FieldValue(After(After(head, ":"), ":"))
           F == IF Count(args.s, ".") = 0 THEN Limbs(0, 8)
                ELSE FieldValue(After(args.s, "."))
           HM == Low(AddLimbs(Low(MulLimbs(H, 3600, 0), 8),
                              Low(MulLimbs(M, 60, 0), 8), 0), 8)
       IN  /\ ZeroExtend(val.seconds, 8) = Low(AddLimbs(HM, S, 0), 8)
           /\ ZeroExtend(val.micros, 8) = F

====
